---- MODULE Spec2Model ----
(***************************************************************************)
(* FastK driver (FastK.c, main): option parsing, partition and encoding    *)
(* planning, the open-file guard and the sequencing of the four stages     *)
(* Split_Kmers, Sorting, Merge_Tables, Merge_Profiles.  Normal build       *)
(* (DEVELOPER not defined).                                                *)
(***************************************************************************)
EXTENDS Integers, Sequences, FiniteSets, TLC

(***************************************************************************)
(* Bounds of the model.                                                    *)
(***************************************************************************)
\* Bytes per "GB" of -M.  The program uses 10^9 (SORT_MEMORY = memory *
\* 1000000000ll, a 64-bit product); the model scales the unit down so that
\* every byte count fits TLC's 32-bit integers.
GB == 1000
\* -k<int> is tried for every value 1..MaxK (and a few larger ones, KVals)
MaxK == 9
\* Determine_Scheme returns every value 1..MaxSuper (and a few larger ones)
MaxSuper == 5
\* the descriptor handed out for the throwaway file ".xxx" is 3..MaxTid
MaxTid == 4

(***************************************************************************)
(* Program constants.                                                      *)
(***************************************************************************)
DefaultKMER     == 40
DefaultMemoryGB == 12
DefaultThreads  == 4
FlagTable       == 4

(***************************************************************************)
(* C arithmetic.                                                           *)
(***************************************************************************)
RECURSIVE Pow2(_)
Pow2(n) == IF n <= 0 THEN 1 ELSE 2 * Pow2(n - 1)

\* x >> n for x >= 0
Shr(x, n) == x \div Pow2(n)

\* x << n
Shl(x, n) == x * Pow2(n)

\* C integer division truncates toward zero (b > 0)
CDiv(a, b) == IF a >= 0 THEN a \div b ELSE -((-a) \div b)

\* bitwise and of two non-negative integers
RECURSIVE BitAnd(_, _)
BitAnd(a, b) ==
  IF a = 0 \/ b = 0 THEN 0
  ELSE (IF a % 2 = 1 /\ b % 2 = 1 THEN 1 ELSE 0) + 2 * BitAnd(a \div 2, b \div 2)

(***************************************************************************)
(* Command lines.  An argument is [c, kind, v, f]: c is the option name    *)
(* (argv[i][1], "bc" for -bc, "" for an operand), kind tells what follows   *)
(* it: "flags" (nothing or letters, f the letters of the whole argument),  *)
(* "int" (the integer v), "text"                                           *)
(* (something that is no integer), "stub" (-p:<table>), "src" (an          *)
(* operand), or, for -P, the shape of the path: "/abs", "rel", ".",        *)
(* "./rel", ".rel".                                                        *)
(***************************************************************************)
Flags(c, S) == [c |-> c, kind |-> "flags", v |-> 0, f |-> S]
IntArg(c, n) == [c |-> c, kind |-> "int", v |-> n, f |-> {}]
TextArg(c) == [c |-> c, kind |-> "text", v |-> 0, f |-> {}]
StubArg == [c |-> "p", kind |-> "stub", v |-> 0, f |-> {}]
PathArg(shape) == [c |-> "P", kind |-> shape, v |-> 0, f |-> {}]
SrcArg == [c |-> "", kind |-> "src", v |-> 0, f |-> {}]

KVals == (1 .. MaxK) \cup {16, 17, 32, 33, 64}

KChoices == {<<>>} \cup {<<IntArg("k", n)>> : n \in KVals}
TChoices == {<<>>, <<Flags("t", {"t"})>>, <<IntArg("t", 2)>>}
PChoices == {<<>>, <<Flags("p", {"p"})>>}
MChoices == {<<>>, <<IntArg("M", 1)>>}
ThChoices == {<<>>, <<IntArg("T", 1)>>}

\* command lines that name one source and are well formed
GoodArgv ==
  { k \o t \o p \o m \o th \o <<SrcArg>> :
      k \in KChoices, t \in TChoices, p \in PChoices, m \in MChoices, th \in ThChoices }

\* further command lines: combined and repeated options, and the mistakes
OtherArgv ==
  { <<>>,
    <<Flags("v", {"v"})>>,
    <<Flags("v", {"v", "c", "t", "p"}), SrcArg>>,
    <<Flags("p", {"p", "t"}), SrcArg, SrcArg>>,
    <<Flags("t", {"t", "v"}), SrcArg>>,
    <<IntArg("t", 3), Flags("t", {"t"}), SrcArg>>,
    <<Flags("t", {"t"}), IntArg("t", 3), SrcArg>>,
    <<SrcArg, IntArg("T", 2), IntArg("M", 2)>>,
    <<IntArg("bc", 0), SrcArg>>,
    <<IntArg("bc", 5), TextArg("N"), SrcArg>>,
    <<IntArg("bc", -1), SrcArg>>,
    <<TextArg("bc"), SrcArg>>,
    <<Flags("b", {"b", "x"}), SrcArg>>,
    <<Flags("x", {"x"}), SrcArg>>,
    <<Flags("v", {"v", "k"}), SrcArg>>,
    <<IntArg("p", 5), SrcArg>>,
    <<IntArg("t", 0), SrcArg>>,
    <<IntArg("t", -1), SrcArg>>,
    <<TextArg("t"), SrcArg>>,
    <<IntArg("k", 0), SrcArg>>,
    <<TextArg("k"), SrcArg>>,
    <<IntArg("M", 0), SrcArg>>,
    <<IntArg("T", 0), SrcArg>>,
    <<StubArg, SrcArg>>,
    <<StubArg, IntArg("k", 8), SrcArg>>,
    <<Flags("t", {"t"}), StubArg>>,
    <<PathArg("/abs"), SrcArg>>,
    <<PathArg("rel"), Flags("t", {"t"}), SrcArg>>,
    <<PathArg("."), SrcArg>>,
    <<PathArg("./rel"), Flags("p", {"p"}), SrcArg>>,
    <<PathArg(".rel"), SrcArg>> }

ArgvSet == GoodArgv \cup OtherArgv

(***************************************************************************)
(* The macros of gene_core.h that main uses.                               *)
(***************************************************************************)
\* ARG_FLAGS("vcpt"): every letter of the argument is one of v, c, p, t
ARG_FLAGS(a) == a.kind = "flags" /\ a.f \subseteq {"v", "c", "p", "t"}

\* ARG_POSITIVE(var,name): the text is an integer and it is > 0
ARG_POSITIVE(a) == a.kind = "int" /\ a.v > 0

\* ARG_NON_NEGATIVE(var,name): the text is an integer and it is >= 0
ARG_NON_NEGATIVE(a) == a.kind = "int" /\ a.v >= 0

(***************************************************************************)
(* The environment: the first block of the input (Get_First_Block), the    *)
(* result of Determine_Scheme, the open-file limits of the process.        *)
(* ratio is the double rnum/rden; the denominators are powers of two, so   *)
(* that the double products of line 367 are exact.                         *)
(***************************************************************************)
Block(t, n, rn, rd) == [totlen |-> t, nreads |-> n, rnum |-> rn, rden |-> rd]

NoBlock == Block(0, 0, 0, 1)

SampleSet ==
  { Block(0, 0, 1, 1),
    Block(3000000, 100000, 1, 1),
    Block(1000, 5, 1, 1),
    Block(1000, 5, 3, 2),
    Block(12, 1, 1, 1),
    Block(5, 1, 3, 2),
    Block(258, 1, 1, 1) }

SuperVals == (1 .. MaxSuper) \cup {15, 16, 255, 256}

RLimit(c, m) == [rlim_cur |-> c, rlim_max |-> m]

RlimSet == {RLimit(8, 40), RLimit(64, 64)}

\* setrlimit(RLIMIT_NOFILE,&rlp) of an unprivileged process: refused (limits
\* unchanged) if the soft limit exceeds the hard one or the hard one is raised
setrlimit(old, new) ==
  IF new.rlim_cur <= new.rlim_max /\ new.rlim_max <= old.rlim_max THEN new ELSE old

(***************************************************************************)
(* The planner's computations.                                             *)
(***************************************************************************)
\* KMER_BYTES = (KMER*2+7) >> 3
KmerBytes(k) == Shr(k * 2 + 7, 3)

\* gsize = block->totlen - KMER*block->nreads
EffectiveBases(b, k) == b.totlen - k * b.nreads

\* a slip of line 363: <= in place of <
ShortReadsLoose(gs, totlen) == gs <= CDiv(totlen, 3)

\* if (gsize < block->totlen/3)
ShortReads(gs, totlen) == gs < CDiv(totlen, 3)

\* gsize = gsize*block->ratio*rsize : a double, converted back to int64
Projected(gs, b, rs) == CDiv(gs * b.rnum * rs, b.rden)

\* a slip of line 368: the -1 forgotten
NpartsNoRound(gs, sm) == CDiv(gs, sm) + 1

\* NPARTS = (gsize-1)/SORT_MEMORY + 1
Nparts(gs, sm) == CDiv(gs - 1, sm) + 1

\* MOD_LEN = 1; while (MOD_LEN < KMER) MOD_LEN <<= 1;
RECURSIVE ModLenLoop(_, _)
ModLenLoop(m, k) == IF m < k THEN ModLenLoop(Shl(m, 1), k) ELSE m

\* a slip of lines 385-388: the shift after the loop forgotten
ModLenNoDouble(k) == ModLenLoop(1, k)

\* ... MOD_LEN <<= 1;
ModLen(k) == Shl(ModLenLoop(1, k), 1)

\* a slip of line 398: the loop stops at val > 1
RECURSIVE SlenBitsShort(_)
SlenBitsShort(val) == IF val > 1 THEN 1 + SlenBitsShort(Shr(val, 1)) ELSE 0

\* SLEN_BITS = 0; for (val = MAX_SUPER; val > 0; val >>= 1) SLEN_BITS += 1;
RECURSIVE SlenBits(_)
SlenBits(val) == IF val > 0 THEN 1 + SlenBits(Shr(val, 1)) ELSE 0

\* SLEN_BIT_MASK = (0x1u << SLEN_BITS)-1   (SLEN_BITS < 32)
SlenBitMask(bits) == Shl(1, bits) - 1

\* SLEN_BYTES = (SLEN_BITS+7) >> 3
SlenBytes(bits) == Shr(bits + 7, 3)

\* SMER_BYTES = (SMER*2+7) >> 3
SmerBytes(smer) == Shr(smer * 2 + 7, 3)

\* a slip of line 406: the width of SLEN_BYTES
PlenBytesAsSlen(bits) == Shr(bits + 7, 3)

\* PLEN_BYTES = (SLEN_BITS+8) >> 3
PlenBytes(bits) == Shr(bits + 8, 3)

\* slips of line 420: the two extra files per thread, or tid, forgotten
NfilesNoSpare(np, nt, t) == np * nt + t

NfilesNoBase(np, nt, t) == (np + 2) * nt

\* nfiles = (NPARTS+2)*NTHREADS + tid
Nfiles(np, nt, t) == (np + 2) * nt + t

\* a slip of line 422: the comparison turned around
TooManyFilesInverted(n, max) == n < max

\* if (nfiles > rlp.rlim_max)
TooManyFiles(n, max) == n > max

(***************************************************************************)
(* State.                                                                  *)
(***************************************************************************)
VARIABLES
  argv,          \* the command line, argv[1..]
  pc,            \* where main is
  i, j, argc,    \* the argument loop
  flags,         \* the letters set by ARG_FLAGS
  exitCode,      \* -1 while running, then the argument of exit
  diag,          \* the diagnostic printed before exit (1)
  VERBOSE, COMPRESS, NTHREADS, SORT_MEMORY, SORT_PATH,
  KMER, DO_TABLE, DO_PROFILE, PRO_THREADS, promer, BC_PREFIX, OUT_NAME,
  block,         \* the first block, NoBlock when not held
  rsize, gsize,
  NPARTS, KMER_BYTES, MOD_LEN, MOD_MSK, MAX_SUPER, SMER,
  SLEN_BITS, SLEN_BIT_MASK, SLEN_BYTES, SMER_BYTES, SMER_WORD,
  KMER_WORD, PLEN_BYTES, TMER_WORD,
  tid, nfiles, rlp,
  rlimit,        \* the process's RLIMIT_NOFILE
  active,        \* the stages that have been called and have not returned
  started,       \* the stages called, in order
  finished       \* the stages that returned, in order

ctlVars == <<i, j, argc, flags>>
optVars == <<VERBOSE, COMPRESS, NTHREADS, SORT_MEMORY, SORT_PATH,
             KMER, DO_TABLE, DO_PROFILE, PRO_THREADS, promer, BC_PREFIX, OUT_NAME>>
sizeVars == <<rsize, gsize, NPARTS, KMER_BYTES>>
modVars == <<MOD_LEN, MOD_MSK>>
layoutVars == <<MAX_SUPER, SMER, SLEN_BITS, SLEN_BIT_MASK, SLEN_BYTES, SMER_BYTES,
                SMER_WORD, KMER_WORD, PLEN_BYTES, TMER_WORD>>
guardVars == <<tid, nfiles, rlp, rlimit>>
stageVars == <<active, started, finished>>

vars == <<argv, pc, exitCode, diag, ctlVars, optVars, block, sizeVars, modVars,
          layoutVars, guardVars, stageVars>>

\* main is entered: globals are zero, locals not yet assigned (shown as 0;
\* none is read before it is written)
Init ==
  /\ argv \in ArgvSet
  /\ rlimit \in RlimSet
  /\ pc = "defaults"
  /\ i = 0 /\ j = 0 /\ argc = 0 /\ flags = {}
  /\ exitCode = -1 /\ diag = "none"
  /\ VERBOSE = 0 /\ COMPRESS = 0 /\ NTHREADS = 0 /\ SORT_MEMORY = 0
  /\ SORT_PATH = "NULL"
  /\ KMER = 0 /\ DO_TABLE = 0 /\ DO_PROFILE = 0 /\ PRO_THREADS = 0 /\ promer = 0
  /\ BC_PREFIX = 0 /\ OUT_NAME = "NULL"
  /\ block = NoBlock
  /\ rsize = 0 /\ gsize = 0
  /\ NPARTS = 0 /\ KMER_BYTES = 0 /\ MOD_LEN = 0 /\ MOD_MSK = 0 /\ MAX_SUPER = 0
  /\ SMER = 0 /\ SLEN_BITS = 0 /\ SLEN_BIT_MASK = 0 /\ SLEN_BYTES = 0
  /\ SMER_BYTES = 0 /\ SMER_WORD = 0 /\ KMER_WORD = 0 /\ PLEN_BYTES = 0
  /\ TMER_WORD = 0
  /\ tid = 0 /\ nfiles = 0 /\ rlp = RLimit(0, 0)
  /\ active = {} /\ started = <<>> /\ finished = <<>>

\* fprintf(stderr,...); exit (1);
Abort(d) == pc' = "exited" /\ exitCode' = 1 /\ diag' = d

\* execution goes on at label l
Goto(l) == pc' = l /\ UNCHANGED <<exitCode, diag>>

planVars == <<block, sizeVars, modVars, layoutVars, guardVars, stageVars>>

(***************************************************************************)
(* Option parsing, lines 165-301.                                          *)
(***************************************************************************)
\* ARG_INIT and the default option settings; j = 1 and the loop's i = 1
SetDefaults ==
  /\ pc = "defaults"
  /\ flags' = {}
  /\ KMER' = DefaultKMER
  /\ SORT_MEMORY' = DefaultMemoryGB * GB
  /\ NTHREADS' = DefaultThreads
  /\ SORT_PATH' = "/abs"
  /\ DO_TABLE' = 0
  /\ DO_PROFILE' = 0
  /\ PRO_THREADS' = 0
  /\ BC_PREFIX' = 0
  /\ OUT_NAME' = "NULL"
  /\ j' = 1
  /\ i' = 1
  /\ Goto("args")
  /\ UNCHANGED <<argv, argc, VERBOSE, COMPRESS, promer, planVars>>

InLoop == pc = "args" /\ i <= Len(argv)

\* the end of one iteration that did not exit
NextArg == i' = i + 1 /\ Goto("args")

\* else argv[j++] = argv[i];
ArgOperand ==
  /\ InLoop /\ argv[i].kind = "src"
  /\ j' = j + 1
  /\ NextArg
  /\ UNCHANGED <<argv, argc, flags, optVars, planVars>>

\* default:, and the -p and -t arguments that are handed to ARG_FLAGS
ArgFlags ==
  /\ InLoop /\ argv[i].kind # "src"
  /\ \/ argv[i].c \notin {"b", "bc", "k", "p", "t", "M", "N", "P", "T"}
     \/ argv[i].c = "p" /\ argv[i].kind # "stub"
     \/ argv[i].c = "t" /\ argv[i].kind = "flags"
  /\ IF ARG_FLAGS(argv[i])
       THEN flags' = flags \cup argv[i].f /\ NextArg
       ELSE Abort("illegal option") /\ UNCHANGED <<flags, i>>
  /\ UNCHANGED <<argv, j, argc, optVars, planVars>>

\* case 'b':
ArgBc ==
  /\ InLoop /\ argv[i].c \in {"b", "bc"}
  /\ IF argv[i].c # "bc"
       THEN Abort("illegal option") /\ UNCHANGED <<BC_PREFIX, i>>
       ELSE IF ARG_NON_NEGATIVE(argv[i])
              THEN BC_PREFIX' = argv[i].v /\ NextArg
              ELSE Abort("bad option value") /\ UNCHANGED <<BC_PREFIX, i>>
  /\ UNCHANGED <<argv, j, argc, flags, VERBOSE, COMPRESS, NTHREADS, SORT_MEMORY,
                 SORT_PATH, KMER, DO_TABLE, DO_PROFILE, PRO_THREADS, promer,
                 OUT_NAME, planVars>>

\* case 'k':
ArgK ==
  /\ InLoop /\ argv[i].c = "k"
  /\ IF ARG_POSITIVE(argv[i])
       THEN KMER' = argv[i].v /\ NextArg
       ELSE Abort("bad option value") /\ UNCHANGED <<KMER, i>>
  /\ UNCHANGED <<argv, j, argc, flags, VERBOSE, COMPRESS, NTHREADS, SORT_MEMORY,
                 SORT_PATH, DO_TABLE, DO_PROFILE, PRO_THREADS, promer, BC_PREFIX,
                 OUT_NAME, planVars>>

\* case 'p': with -p:<table>: the stub file is opened and its header read
ArgStub ==
  /\ InLoop /\ argv[i].c = "p" /\ argv[i].kind = "stub"
  /\ \E found \in BOOLEAN, pm \in {8, DefaultKMER}, pt \in {0, 2} :
       IF ~found
         THEN Abort("no stub file") /\ UNCHANGED <<promer, PRO_THREADS, DO_PROFILE, i>>
         ELSE /\ promer' = pm
              /\ PRO_THREADS' = pt
              /\ IF pt <= 0
                   THEN Abort("no hidden files") /\ UNCHANGED <<DO_PROFILE, i>>
                   ELSE DO_PROFILE' = 1 /\ NextArg
  /\ UNCHANGED <<argv, j, argc, flags, VERBOSE, COMPRESS, NTHREADS, SORT_MEMORY,
                 SORT_PATH, KMER, DO_TABLE, BC_PREFIX, OUT_NAME, planVars>>

\* case 't': with something that is no letter after -t
ArgT ==
  /\ InLoop /\ argv[i].c = "t" /\ argv[i].kind # "flags"
  /\ IF ARG_POSITIVE(argv[i])
       THEN DO_TABLE' = argv[i].v /\ NextArg
       ELSE Abort("bad option value") /\ UNCHANGED <<DO_TABLE, i>>
  /\ UNCHANGED <<argv, j, argc, flags, VERBOSE, COMPRESS, NTHREADS, SORT_MEMORY,
                 SORT_PATH, KMER, DO_PROFILE, PRO_THREADS, promer, BC_PREFIX,
                 OUT_NAME, planVars>>

\* case 'M':
ArgM ==
  /\ InLoop /\ argv[i].c = "M"
  /\ IF ARG_POSITIVE(argv[i])
       THEN SORT_MEMORY' = argv[i].v * GB /\ NextArg
       ELSE Abort("bad option value") /\ UNCHANGED <<SORT_MEMORY, i>>
  /\ UNCHANGED <<argv, j, argc, flags, VERBOSE, COMPRESS, NTHREADS,
                 SORT_PATH, KMER, DO_TABLE, DO_PROFILE, PRO_THREADS, promer,
                 BC_PREFIX, OUT_NAME, planVars>>

\* case 'N':
ArgN ==
  /\ InLoop /\ argv[i].c = "N"
  /\ OUT_NAME' = "given"
  /\ NextArg
  /\ UNCHANGED <<argv, j, argc, flags, VERBOSE, COMPRESS, NTHREADS, SORT_MEMORY,
                 SORT_PATH, KMER, DO_TABLE, DO_PROFILE, PRO_THREADS, promer,
                 BC_PREFIX, planVars>>

\* case 'P':
ArgP ==
  /\ InLoop /\ argv[i].c = "P"
  /\ SORT_PATH' = argv[i].kind
  /\ NextArg
  /\ UNCHANGED <<argv, j, argc, flags, VERBOSE, COMPRESS, NTHREADS, SORT_MEMORY,
                 KMER, DO_TABLE, DO_PROFILE, PRO_THREADS, promer, BC_PREFIX,
                 OUT_NAME, planVars>>

\* case 'T':
ArgTh ==
  /\ InLoop /\ argv[i].c = "T"
  /\ IF ARG_POSITIVE(argv[i])
       THEN NTHREADS' = argv[i].v /\ NextArg
       ELSE Abort("bad option value") /\ UNCHANGED <<NTHREADS, i>>
  /\ UNCHANGED <<argv, j, argc, flags, VERBOSE, COMPRESS, SORT_MEMORY,
                 SORT_PATH, KMER, DO_TABLE, DO_PROFILE, PRO_THREADS, promer,
                 BC_PREFIX, OUT_NAME, planVars>>

\* after the loop: argc = j and the flag settings, lines 264-271
EndArgs ==
  /\ pc = "args" /\ i > Len(argv)
  /\ argc' = j
  /\ VERBOSE' = IF "v" \in flags THEN 1 ELSE 0
  /\ COMPRESS' = IF "c" \in flags THEN 1 ELSE 0
  /\ DO_TABLE' = IF "t" \in flags THEN FlagTable ELSE DO_TABLE
  /\ DO_PROFILE' = IF "p" \in flags THEN 1 ELSE DO_PROFILE
  /\ Goto("stub")
  /\ UNCHANGED <<argv, i, j, flags, NTHREADS, SORT_MEMORY, SORT_PATH, KMER,
                 PRO_THREADS, promer, BC_PREFIX, OUT_NAME, planVars>>

\* if (PRO_THREADS > 0), lines 273-281
CheckStub ==
  /\ pc = "stub"
  /\ IF PRO_THREADS > 0
       THEN IF promer # KMER
              THEN Abort("stub k-mer size")
              ELSE Abort("-p:ktab not functional")
       ELSE Goto("usage")
  /\ UNCHANGED <<argv, ctlVars, optVars, planVars>>

\* if (argc < 2), lines 283-300
CheckUsage ==
  /\ pc = "usage"
  /\ IF argc < 2 THEN Abort("usage") ELSE Goto("path")
  /\ UNCHANGED <<argv, ctlVars, optVars, planVars>>

(***************************************************************************)
(* The scratch directory, lines 305-333.                                   *)
(***************************************************************************)
SortPath ==
  /\ pc = "path"
  /\ IF SORT_PATH = ".rel"
       THEN Abort("-P: . not followed by /") /\ UNCHANGED SORT_PATH
       ELSE /\ SORT_PATH' = "/abs"
            /\ \E opened \in BOOLEAN :
                 IF opened THEN Goto("block") ELSE Abort("-P: cannot open directory")
  /\ UNCHANGED <<argv, ctlVars, VERBOSE, COMPRESS, NTHREADS, SORT_MEMORY,
                 KMER, DO_TABLE, DO_PROFILE, PRO_THREADS, promer, BC_PREFIX,
                 OUT_NAME, planVars>>

(***************************************************************************)
(* Planning, lines 335-407.                                                *)
(***************************************************************************)
\* first block, KMER_BYTES, the short-read check and NPARTS, lines 357-368
SizePartitions ==
  /\ pc = "block"
  /\ \E b \in SampleSet :
       /\ block' = b
       /\ KMER_BYTES' = KmerBytes(KMER)
       /\ rsize' = KmerBytes(KMER) + 2
       /\ IF ShortReads(EffectiveBases(b, KMER), b.totlen)
            THEN /\ gsize' = EffectiveBases(b, KMER)
                 /\ Abort("sequences too short")
                 /\ UNCHANGED NPARTS
            ELSE /\ gsize' = Projected(EffectiveBases(b, KMER), b, KmerBytes(KMER) + 2)
                 /\ NPARTS' = Nparts(gsize', SORT_MEMORY)
                 /\ Goto("modlen")
  /\ UNCHANGED <<argv, ctlVars, optVars, modVars, layoutVars, guardVars, stageVars>>

\* MOD_LEN and MOD_MSK, lines 385-389
MinimizerBuffer ==
  /\ pc = "modlen"
  /\ MOD_LEN' = ModLen(KMER)
  /\ MOD_MSK' = ModLen(KMER) - 1
  /\ Goto("scheme")
  /\ UNCHANGED <<argv, ctlVars, optVars, block, sizeVars, layoutVars, guardVars,
                 stageVars>>

\* Determine_Scheme, Free_First_Block and the field widths, lines 391-407
Layout ==
  /\ pc = "scheme"
  /\ \E ms \in SuperVals :
       /\ MAX_SUPER' = ms
       /\ block' = NoBlock
       /\ SMER' = ms + KMER - 1
       /\ SLEN_BITS' = SlenBits(ms)
       /\ SLEN_BIT_MASK' = SlenBitMask(SLEN_BITS')
       /\ SLEN_BYTES' = SlenBytes(SLEN_BITS')
       /\ SMER_BYTES' = SmerBytes(SMER')
       /\ SMER_WORD' = SMER_BYTES' + SLEN_BYTES'
       /\ KMER_WORD' = KMER_BYTES + 2
       /\ PLEN_BYTES' = PlenBytes(SLEN_BITS')
       /\ TMER_WORD' = KMER_BYTES + 2
  /\ Goto("rlimit")
  /\ UNCHANGED <<argv, ctlVars, optVars, sizeVars, modVars, guardVars, stageVars>>

(***************************************************************************)
(* The open-file guard, lines 412-428.                                     *)
(***************************************************************************)
ResourceGuard ==
  /\ pc = "rlimit"
  /\ \E t \in 3 .. MaxTid :
       /\ tid' = t
       /\ nfiles' = Nfiles(NPARTS, NTHREADS, t)
  /\ IF TooManyFiles(nfiles', rlimit.rlim_max)
       THEN /\ rlp' = rlimit
            /\ Abort("cannot open that many files")
            /\ UNCHANGED rlimit
       ELSE /\ rlp' = [rlimit EXCEPT !.rlim_cur = nfiles']
            /\ rlimit' = setrlimit(rlimit, rlp')
            /\ Goto("split")
  /\ UNCHANGED <<argv, ctlVars, optVars, block, sizeVars, modVars, layoutVars,
                 stageVars>>

(***************************************************************************)
(* The stages, lines 430-457.  A stage is code of another file: the model  *)
(* has its call and its return.                                            *)
(***************************************************************************)
Call(stage, inside) ==
  /\ active' = active \cup {stage}
  /\ started' = Append(started, stage)
  /\ Goto(inside)
  /\ UNCHANGED <<argv, ctlVars, optVars, block, sizeVars, modVars, layoutVars,
                 guardVars, finished>>

Return(stage, next) ==
  /\ active' = active \ {stage}
  /\ finished' = Append(finished, stage)
  /\ Goto(next)
  /\ UNCHANGED <<argv, ctlVars, optVars, block, sizeVars, modVars, layoutVars,
                 guardVars, started>>

Skip(next) ==
  /\ Goto(next)
  /\ UNCHANGED <<argv, ctlVars, optVars, planVars>>

\* Split_Kmers(io,root);
CallSplit == pc = "split" /\ Call("Split", "inSplit")

ReturnSplit == pc = "inSplit" /\ Return("Split", "sort")

\* a slip of lines 433-441: Sorting called while Split_Kmers is running
CallSortEarly == pc = "inSplit" /\ Call("Sort", "inSort")

\* Sorting(pwd,root);
CallSort == pc = "sort" /\ Call("Sort", "inSort")

ReturnSort == pc = "inSort" /\ Return("Sort", "table")

\* a slip of line 443: >= in place of >
RunTableAlways == DO_TABLE >= 0

\* if (DO_TABLE > 0)
RunTable == DO_TABLE > 0

\* Merge_Tables(pwd,root);
CallMergeTables == pc = "table" /\ RunTable /\ Call("MergeTable", "inTable")

SkipMergeTables == pc = "table" /\ ~RunTable /\ Skip("profile")

ReturnMergeTables == pc = "inTable" /\ Return("MergeTable", "profile")

\* if (DO_PROFILE > 0)
RunProfile == DO_PROFILE > 0

\* Merge_Profiles(pwd,root);
CallMergeProfiles == pc = "profile" /\ RunProfile /\ Call("MergeProfile", "inProfile")

SkipMergeProfiles == pc = "profile" /\ ~RunProfile /\ Skip("finish")

ReturnMergeProfiles == pc = "inProfile" /\ Return("MergeProfile", "finish")

\* the frees and exit (0), lines 459-477
Finish ==
  /\ pc = "finish"
  /\ pc' = "exited"
  /\ exitCode' = 0
  /\ UNCHANGED <<argv, diag, ctlVars, optVars, planVars>>

Next ==
  \/ SetDefaults
  \/ ArgOperand \/ ArgFlags \/ ArgBc \/ ArgK \/ ArgStub \/ ArgT \/ ArgM \/ ArgN
  \/ ArgP \/ ArgTh
  \/ EndArgs \/ CheckStub \/ CheckUsage \/ SortPath
  \/ SizePartitions \/ MinimizerBuffer \/ Layout \/ ResourceGuard
  \/ CallSplit \/ ReturnSplit \/ CallSort \/ ReturnSort
  \/ CallMergeTables \/ SkipMergeTables \/ ReturnMergeTables
  \/ CallMergeProfiles \/ SkipMergeProfiles \/ ReturnMergeProfiles
  \/ Finish

Spec == Init /\ [][Next]_vars

(***************************************************************************)
(* Vocabulary of the properties.                                           *)
(***************************************************************************)
Range(q) == {q[n] : n \in 1 .. Len(q)}

StageOrder == <<"Split", "Sort", "MergeTable", "MergeProfile">>

Rank(stage) == CHOOSE n \in 1 .. Len(StageOrder) : StageOrder[n] = stage

\* the diagnostics of the planning phase
PlanningDiags ==
  { "illegal option", "bad option value", "usage", "no stub file", "no hidden files",
    "stub k-mer size", "-p:ktab not functional", "-P: . not followed by /",
    "-P: cannot open directory", "sequences too short",
    "cannot open that many files" }

\* the command line asks for a table with a cutoff >= 0 (-t alone asks for 4)
TableRequested ==
  \E n \in 1 .. Len(argv) :
    \/ argv[n].kind = "flags" /\ "t" \in argv[n].f
    \/ argv[n].c = "t" /\ argv[n].kind = "int" /\ argv[n].v >= 0

\* the command line asks for profiles
ProfileRequested ==
  \E n \in 1 .. Len(argv) :
    \/ argv[n].kind = "flags" /\ "p" \in argv[n].f
    \/ argv[n].c = "p" /\ argv[n].kind = "stub"

\* the powers of two up to 1024
Pow2Set == {Pow2(n) : n \in 0 .. 10}

\* the smallest power of two that satisfies ok
Smallest(ok(_)) == CHOOSE q \in Pow2Set : ok(q) /\ \A r \in Pow2Set : ok(r) => q <= r

(***************************************************************************)
(* C1: the stages are started in the order Split, Sort, MergeTable,        *)
(* MergeProfile, each at most once; a stage is started only when every     *)
(* stage started before it has returned (Sort after Split has finished,    *)
(* the merges after Sort has finished); at most one stage is active.       *)
(***************************************************************************)
C1_StagesInOrder ==
  /\ Cardinality(active) <= 1
  /\ \A a, b \in 1 .. Len(started) : a < b => Rank(started[a]) < Rank(started[b])
  /\ \A a \in 1 .. Len(started) - 1 : started[a] \in Range(finished)
  /\ "Sort" \in Range(started) => "Split" \in Range(finished)
  /\ "MergeTable" \in Range(started) => "Sort" \in Range(finished)
  /\ "MergeProfile" \in Range(started) => "Sort" \in Range(finished)
  /\ active \subseteq Range(started) \ Range(finished)

C1_Witness ==
  /\ started = StageOrder
  /\ finished = <<"Split", "Sort", "MergeTable">>
  /\ active = {"MergeProfile"}

(***************************************************************************)
(* C2: a run that ends with exit code 0 has run Split and Sort; it has run *)
(* MergeTable iff a table cutoff >= 0 was requested and MergeProfile iff   *)
(* profiles were requested; no merge is ever started without its request.  *)
(***************************************************************************)
C2_StagesRun ==
  /\ "MergeTable" \in Range(started) => TableRequested
  /\ "MergeProfile" \in Range(started) => ProfileRequested
  /\ exitCode = 0 =>
       /\ "Split" \in Range(finished)
       /\ "Sort" \in Range(finished)
       /\ "MergeTable" \in Range(finished) <=> TableRequested
       /\ "MergeProfile" \in Range(finished) <=> ProfileRequested

C2_Witness ==
  /\ exitCode = 0
  /\ ~TableRequested /\ ~ProfileRequested
  /\ started = <<"Split", "Sort">> /\ finished = <<"Split", "Sort">>

(***************************************************************************)
(* C3: a run that ends with exit code 1 printed a planning diagnostic and  *)
(* has started no stage; a run that ends with exit code 0 has passed every *)
(* planning check: legal options and a source, no -p:<table>, a scratch    *)
(* directory that opened, reads long enough (NPARTS was computed), and a   *)
(* number of files within the hard limit.                                  *)
(***************************************************************************)
LegalArg(a) ==
  \/ a.kind = "src"
  \/ a.kind = "flags" /\ a.f \subseteq {"v", "c", "p", "t"}
  \/ a.kind = "int" /\ a.c \in {"k", "t", "M", "T"} /\ a.v > 0
  \/ a.kind = "int" /\ a.c = "bc" /\ a.v >= 0
  \/ a.c = "N"
  \/ a.c = "P" /\ a.kind # ".rel"

ChecksPassed ==
  /\ \A n \in 1 .. Len(argv) : LegalArg(argv[n])
  /\ \E n \in 1 .. Len(argv) : argv[n].kind = "src"
  /\ PRO_THREADS = 0
  /\ SORT_PATH = "/abs"
  /\ NPARTS >= 1
  /\ nfiles = (NPARTS + 2) * NTHREADS + tid
  /\ nfiles <= rlimit.rlim_max

C3_PlanningFailuresBeforeSplit ==
  /\ exitCode = 1 => diag \in PlanningDiags /\ started = <<>> /\ active = {}
  /\ diag # "none" => exitCode = 1
  /\ exitCode = 0 => diag = "none" /\ ChecksPassed

C3_Witness ==
  /\ exitCode = 1
  /\ diag = "cannot open that many files"
  /\ started = <<>>

(***************************************************************************)
(* C4, as amended: the guard computes nfiles = (NPARTS+2)*NTHREADS + tid;  *)
(* if nfiles exceeds the hard limit the run exits with code 1, no stage    *)
(* started and the limits untouched; otherwise the soft limit is set to    *)
(* nfiles (it may be lower than it was) and the hard limit is unchanged.   *)
(***************************************************************************)
GuardStep(softRule) ==
  pc = "rlimit" =>
    /\ nfiles' = (NPARTS + 2) * NTHREADS + tid'
    /\ rlimit'.rlim_max = rlimit.rlim_max
    /\ IF nfiles' > rlimit.rlim_max
         THEN exitCode' = 1 /\ started' = <<>> /\ rlimit' = rlimit
         ELSE pc' = "split" /\ rlimit'.rlim_cur = nfiles' /\ softRule

C4_GuardSetsSoftLimit == [][GuardStep(TRUE)]_vars

\* C4 as stated: moreover the soft limit is not lower than it was
C4_SoftLimitNeverLowered == [][GuardStep(rlimit'.rlim_cur >= rlimit.rlim_cur)]_vars

C4_Witness ==
  /\ pc = "split"
  /\ nfiles = (NPARTS + 2) * NTHREADS + tid
  /\ rlimit = [rlim_cur |-> nfiles, rlim_max |-> 64]
  /\ nfiles < 64

(***************************************************************************)
(* C5, as amended: with NPARTS = 10, NTHREADS = 4, descriptor 3 for the    *)
(* throwaway file and a hard limit of 40, nfiles is 51, which exceeds 40:  *)
(* the run exits with code 1 and no stage (so no writer of scratch files)  *)
(* has started.                                                            *)
(***************************************************************************)
GuardExample == NPARTS = 10 /\ NTHREADS = 4 /\ tid = 3 /\ rlimit.rlim_max = 40

GuardExampleAborts ==
  /\ exitCode = 1
  /\ diag = "cannot open that many files"
  /\ started = <<>>

C5_Example51 == GuardExample => nfiles = 51 /\ GuardExampleAborts

\* C5 as stated: the required-files value is 43
C5_Example43 == GuardExample => nfiles = 43 /\ GuardExampleAborts

C5_Witness == GuardExample /\ nfiles = 51 /\ GuardExampleAborts

(***************************************************************************)
(* C6, as amended: MOD_LEN is twice the smallest power of two >= KMER (a   *)
(* power of two greater than KMER, the smallest such only when KMER is a   *)
(* power of two) and MOD_MSK = MOD_LEN - 1; KMER = 40 gives 128 and        *)
(* KMER = 64 gives 128.                                                    *)
(***************************************************************************)
AtLeastK(q) == q >= KMER

AboveK(q) == q > KMER

C6_RingLength ==
  pc = "scheme" =>
    /\ MOD_LEN = 2 * Smallest(AtLeastK)
    /\ MOD_LEN \in Pow2Set /\ MOD_LEN > KMER
    /\ MOD_MSK = MOD_LEN - 1
    /\ KMER = 40 => MOD_LEN = 128
    /\ KMER = 64 => MOD_LEN = 128

\* C6 as stated: the smallest power of two strictly greater than KMER
C6_SmallestAboveK ==
  pc = "scheme" =>
    /\ MOD_LEN = Smallest(AboveK)
    /\ MOD_MSK = MOD_LEN - 1
    /\ KMER = 40 => MOD_LEN = 64
    /\ KMER = 64 => MOD_LEN = 128

C6_Witness == pc = "scheme" /\ KMER = 40 /\ MOD_LEN = 128 /\ MOD_MSK = 127

(***************************************************************************)
(* C7: SLEN_BITS is the smallest n with MAX_SUPER < 2^n, SLEN_BIT_MASK is  *)
(* 2^SLEN_BITS - 1, SLEN_BYTES is ceil(SLEN_BITS / 8), and every value of  *)
(* 0..MAX_SUPER is unchanged by the mask and fits SLEN_BYTES bytes.        *)
(***************************************************************************)
C7_LengthField ==
  pc = "rlimit" =>
    /\ MAX_SUPER < Pow2(SLEN_BITS)
    /\ \A n \in 0 .. SLEN_BITS - 1 : MAX_SUPER >= Pow2(n)
    /\ SLEN_BIT_MASK = Pow2(SLEN_BITS) - 1
    /\ 8 * (SLEN_BYTES - 1) < SLEN_BITS /\ SLEN_BITS <= 8 * SLEN_BYTES
    /\ \A v \in 0 .. MAX_SUPER :
         /\ BitAnd(v, SLEN_BIT_MASK) = v
         /\ v < Pow2(8 * SLEN_BYTES)

C7_Witness ==
  pc = "rlimit" /\ MAX_SUPER = 256 /\ SLEN_BITS = 9 /\ SLEN_BIT_MASK = 511
  /\ SLEN_BYTES = 2

(***************************************************************************)
(* C8: once the short-read check is passed NPARTS >= 1, NPARTS is          *)
(* ceil(gsize / SORT_MEMORY) with gsize the projected size of line 367,    *)
(* 1 when gsize is 0, and for that gsize a larger budget never gives more  *)
(* parts (nor a smaller one fewer).                                        *)
(***************************************************************************)
Budgets == {g * GB : g \in 1 .. DefaultMemoryGB + 1}

C8_PartitionCount ==
  pc = "modlen" =>
    /\ NPARTS >= 1
    /\ gsize >= 0
    /\ gsize = 0 => NPARTS = 1
    /\ gsize > 0 => (NPARTS - 1) * SORT_MEMORY < gsize /\ gsize <= NPARTS * SORT_MEMORY
    /\ \A m \in Budgets :
         /\ m >= SORT_MEMORY => Nparts(gsize, m) <= NPARTS
         /\ m <= SORT_MEMORY => Nparts(gsize, m) >= NPARTS

C8_Witness == pc = "modlen" /\ SORT_MEMORY = GB /\ gsize > 9 * GB /\ NPARTS = 10

(***************************************************************************)
(* C9, as amended: PLEN_BYTES is floor((SLEN_BITS + 8) / 8), that is       *)
(* ceil((SLEN_BITS + 1) / 8).                                              *)
(***************************************************************************)
C9_ProfileLengthBytes ==
  pc = "rlimit" =>
    /\ 8 * PLEN_BYTES <= SLEN_BITS + 8 /\ SLEN_BITS + 8 < 8 * (PLEN_BYTES + 1)
    /\ 8 * (PLEN_BYTES - 1) < SLEN_BITS + 1 /\ SLEN_BITS + 1 <= 8 * PLEN_BYTES

\* C9 as stated: PLEN_BYTES is ceil((SLEN_BITS + 8) / 8)
C9_CeilOfBitsPlus8 ==
  pc = "rlimit" =>
    8 * (PLEN_BYTES - 1) < SLEN_BITS + 8 /\ SLEN_BITS + 8 <= 8 * PLEN_BYTES

C9_Witness == pc = "rlimit" /\ SLEN_BITS = 3 /\ PLEN_BYTES = 1

(***************************************************************************)
(* C10: with effective bases = totlen - KMER*nreads of the first block,    *)
(* the run fails with the short-read diagnostic (exit code 1, NPARTS not   *)
(* computed, no stage) iff effective bases < totlen / 3 (the integer       *)
(* quotient); totlen = 3000000, nreads = 100000, KMER = 40 is rejected.    *)
(***************************************************************************)
TooShort == block.totlen - KMER * block.nreads < block.totlen \div 3

====
